---- MODULE Spec2Model ----
(***************************************************************************)
(* Model of scimitar/plotting.py: the embedding selector, the metastable-  *)
(* graph plotter, the transition-model plotter and the pseudotime          *)
(* clustermap.  A call of a function is one action; what the call draws    *)
(* and returns is recorded in `last`.                                      *)
(*                                                                         *)
(* Conventions.                                                            *)
(*  - An optional argument is a sequence of length <= 1: <<>> is None (or  *)
(*    an omitted keyword), <<v>> is the value v.                           *)
(*  - A data matrix is the sequence of its rows; a row is an abstract      *)
(*    point (a natural number).                                            *)
(*  - Timepoints, pseudotimes and edge weights are in hundredths.          *)
(*  - A Python dict is the sequence of its items in iteration order.       *)
(***************************************************************************)
EXTENDS Integers, Sequences, FiniteSets, TLC

VARIABLES
    embeddings,   \* the LocallyLinearEmbedding objects alive, by identity
    defaults,     \* the default-argument objects of plot_metastable_graph
    graphs,       \* the edge data held by the metastable-graph objects
    last          \* the last call: its arguments, what it drew and returned

vars == <<embeddings, defaults, graphs, last>>

----------------------------------------------------------------------------
(* Bounds of the model *)

MaxRows == 60        \* rows of the matrix handed to choose_2d_embedding
MaxNeighbors == 3    \* explicit n_neighbors arguments tried: 1..MaxNeighbors
MaxObs == 2          \* observations of the matrix handed to the plotters
MaxEmb == 2          \* embedding objects alive at once
MaxCalls == 3        \* plotter calls in the runs that reuse embeddings
MaxT == 3            \* timepoints of an explicit timepoint grid
MaxCols == 112       \* rows of data_array (columns of the heatmap)
MaxGenes == 3        \* columns of data_array (genes, rows of the heatmap)

----------------------------------------------------------------------------
(* Helpers *)

None == <<>>

Some(v) == <<v>>

Range(s) == {s[i] : i \in 1..Len(s)}

RECURSIVE SortedSeq(_)
\* np.unique: the distinct values of a set of naturals in increasing order
SortedSeq(S) ==
    IF S = {} THEN <<>>
    ELSE LET m == CHOOSE x \in S : \A y \in S : x <= y
         IN <<m>> \o SortedSeq(S \ {m})

----------------------------------------------------------------------------
(* choose_2d_embedding *)

SmallSampleRows == 50

\* int(data.shape[0] * 0.8): the double 0.8 lies above 4/5, the product is
\* rounded to the nearest double and int() truncates, which for every row
\* count of the model is the integer quotient of 4*rows by 5.
DefaultNeighborsCeil(rows) == (4 * rows + 4) \div 5

DefaultNeighbors(rows) == (4 * rows) \div 5

ChooseMethodInclusive(rows) ==
    IF rows <= SmallSampleRows THEN "modified" ELSE "standard"

ChooseMethod(rows) ==
    IF rows < SmallSampleRows THEN "modified" ELSE "standard"

\* The projector returned: configured, never fitted, nothing invoked on it.
choose_2d_embedding(rows, n_neighbors) ==
    [ n_components |-> 2,
      n_neighbors  |-> IF n_neighbors = None THEN DefaultNeighbors(rows)
                       ELSE n_neighbors[1],
      method       |-> ChooseMethod(rows),
      fitted       |-> FALSE,
      fit_data     |-> <<>>,
      log          |-> <<>> ]

\* round(0.8 * rows) as Python computes it (0.8 * rows is never a tie)
RoundedNeighbors(rows) == (8 * rows + 5) \div 10

----------------------------------------------------------------------------
(* Collaborators: the projector, the palette, the metastable graph *)

Call(op, arg) == [op |-> op, arg |-> arg]

\* embedding.transform of one row by a fitted projector: a fixed map of the
\* row that depends on the data the projector was fitted on.
Transform(e, p) == <<p + Len(e.fit_data), 2 * p + Len(e.fit_data)>>

TransformAll(e, rows) == [i \in 1..Len(rows) |-> Transform(e, rows[i])]

\* settings.STATE_COLORS, a list indexed by state or cluster id (from 0)
\* (the palette repeats: ids 1 and 3 have the same color)
PaletteSize == 4

STATE_COLORS(i) == <<"c0", "c1", "c2", "c1">>[i + 1]

GraphIds == 1..3

\* number of states of the graph's state model
NumStates(g) == IF g = 1 THEN 2 ELSE 3

\* metastable_graph.state_model.centroids[s]
Centroid(g, s) == 10 * (s + 1) + g

\* metastable_graph.state_model.predict, row by row
Predict(g, data) == [i \in 1..Len(data) |-> data[i] % NumStates(g)]

Edge(s1, s2, w) == [states |-> <<s1, s2>>, weight |-> w]

\* metastable_graph.edge_weights and .state_edges as the graph was built
GraphEdgeWeights(g) ==
    CASE g = 1 -> <<Edge(0, 1, 50)>>
      [] g = 2 -> <<Edge(0, 1, 50), Edge(1, 2, 5)>>
      [] OTHER -> <<Edge(0, 2, 30)>>

GraphStateEdges(g) ==
    [i \in 1..Len(GraphEdgeWeights(g)) |-> GraphEdgeWeights(g)[i].states]

\* the matrix of n observations the plotters are tried on
Data(n) == [i \in 1..n |-> i - 1]

----------------------------------------------------------------------------
(* plot_metastable_graph *)

\* lines 30-34, mutated: a supplied embedding is fitted again
ResolveEmbeddingRefit(embs, embedding, data, n_neighbors, fit_ok) ==
    IF embedding = None
    THEN LET e == choose_2d_embedding(Len(data), n_neighbors)
             f == [e EXCEPT !.log = Append(@, Call("fit_transform", "data")),
                            !.fitted = fit_ok,
                            !.fit_data = IF fit_ok THEN data ELSE <<>>]
         IN [ embs |-> Append(embs, [obj |-> f, origin |-> "plotter"]),
              id   |-> Len(embs) + 1,
              ok   |-> fit_ok ]
    ELSE LET id == embedding[1]
         IN [ embs |-> [embs EXCEPT
                  ![id].obj.log = Append(@, Call("fit_transform", "data")),
                  ![id].obj.fitted = fit_ok,
                  ![id].obj.fit_data = IF fit_ok THEN data ELSE <<>>],
              id   |-> id,
              ok   |-> fit_ok ]

\* lines 30-34 and 82-86: the embedding used, the objects after the call,
\* and whether the projection went through (fit_transform may reject the
\* data; transform raises on a projector that was never fitted).
ResolveEmbedding(embs, embedding, data, n_neighbors, fit_ok) ==
    IF embedding = None
    THEN LET e == choose_2d_embedding(Len(data), n_neighbors)
             f == [e EXCEPT !.log = Append(@, Call("fit_transform", "data")),
                            !.fitted = fit_ok,
                            !.fit_data = IF fit_ok THEN data ELSE <<>>]
         IN [ embs |-> Append(embs, [obj |-> f, origin |-> "plotter"]),
              id   |-> Len(embs) + 1,
              ok   |-> fit_ok ]
    ELSE LET id == embedding[1]
         IN [ embs |-> [embs EXCEPT
                  ![id].obj.log = Append(@, Call("transform", "data"))],
              id   |-> id,
              ok   |-> embs[id].obj.fitted ]

\* lines 56-59: the arguments are rebound, no object is written
ResolveEdges(dflt, gdata, state_edges, edge_weights) ==
    LET se == IF state_edges = None THEN dflt.state_edges ELSE state_edges[1]
        ew == IF edge_weights = None THEN dflt.edge_weights ELSE edge_weights[1]
    IN [ state_edges  |-> IF Len(se) = 0 THEN gdata.state_edges ELSE se,
         edge_weights |-> IF Len(ew) = 0 THEN gdata.edge_weights ELSE ew,
         defaults     |-> dflt,
         gdata        |-> gdata,
         caller_state_edges  |-> state_edges,
         caller_edge_weights |-> edge_weights ]

Max(a, b) == IF a >= b THEN a ELSE b

RECURSIVE DrawEdges(_, _, _)
\* lines 60-66: one segment per item of edge_weights, its endpoints read
\* from the node list at state.index; an index past the list raises
\* IndexError and ends the loop (and the call).
DrawEdges(items, XY, drawn) ==
    IF items = <<>> THEN [segments |-> drawn, raised |-> FALSE]
    ELSE LET it == Head(items)
             i1 == it.states[1]
             i2 == it.states[2]
         IN IF i1 >= Len(XY) \/ i2 >= Len(XY)
            THEN [segments |-> drawn, raised |-> TRUE]
            ELSE DrawEdges(Tail(items), XY,
                     Append(drawn, [ states |-> it.states,
                                     from   |-> XY[i1 + 1],
                                     to     |-> XY[i2 + 1],
                                     linewidth |-> Max(50, 7 * it.weight) ]))

Colors(memberships) ==
    [i \in 1..Len(memberships) |-> STATE_COLORS(memberships[i])]

\* The whole call on the objects `st` with the arguments `a`: the objects
\* after it and the record of what it drew and returned.
plot_metastable_graph(st, a, fit_ok) ==
    LET r    == ResolveEmbedding(st.embeddings, a.embedding, a.data,
                                 a.n_neighbors, fit_ok)
        e    == r.embs[r.id].obj
        g    == a.graph
        mem  == IF a.memberships = None THEN Predict(g, a.data)
                ELSE a.memberships[1]
        none == [ outcome |-> "raised", ret |-> None, used |-> r.id,
                  projected |-> r.ok, memberships |-> mem, scatter |-> <<>>, nodes |-> <<>>,
                  segments |-> <<>>, edges |-> <<>>,
                  caller_state_edges |-> a.state_edges,
                  caller_edge_weights |-> a.edge_weights ]
    IN
    IF ~r.ok
    THEN [embeddings |-> r.embs, defaults |-> st.defaults,
          graphs |-> st.graphs, last |-> [args |-> a, out |-> none]]
    ELSE IF ~a.plot_edges
    THEN [embeddings |-> r.embs, defaults |-> st.defaults,
          graphs |-> st.graphs,
          last |-> [args |-> a,
                    out |-> [none EXCEPT !.outcome = "returned",
                                         !.scatter = Colors(mem)]]]
    ELSE
    LET ordered_states == SortedSeq(Range(mem))
        logged == [r.embs EXCEPT ![r.id].obj.log =
                      @ \o [k \in 1..Len(ordered_states) |->
                               Call("transform", "centroid")]]
        nodes == [k \in 1..Len(ordered_states) |->
                    [ state |-> ordered_states[k],
                      pos   |-> Transform(e, Centroid(g, ordered_states[k])),
                      color |-> STATE_COLORS(ordered_states[k]),
                      count |-> Cardinality({i \in 1..Len(mem) :
                                   mem[i] = ordered_states[k]}) ]]
        XY    == [k \in 1..Len(nodes) |-> nodes[k].pos]
        res   == ResolveEdges(st.defaults, st.graphs[g], a.state_edges,
                              a.edge_weights)
        d     == DrawEdges(res.edge_weights, XY, <<>>)
        out   == [ outcome |-> IF d.raised THEN "raised" ELSE "returned",
                   ret |-> IF d.raised THEN None
                           ELSE Some([colors |-> Colors(mem),
                                      embedding |-> r.id]),
                   used |-> r.id,
                   projected |-> TRUE,
                   memberships |-> mem,
                   scatter |-> Colors(mem),
                   nodes |-> IF d.raised THEN <<>> ELSE nodes,
                   segments |-> d.segments,
                   edges |-> res.edge_weights,
                   caller_state_edges |-> res.caller_state_edges,
                   caller_edge_weights |-> res.caller_edge_weights ]
    IN [embeddings |-> logged, defaults |-> res.defaults,
        graphs |-> [st.graphs EXCEPT ![g] = res.gdata],
        last |-> [args |-> a, out |-> out]]

----------------------------------------------------------------------------
(* plot_transition_model *)

TimepointStop == 100

TimepointStep == 2

\* np.arange(start, stop, step) with the stop included, as linspace would
ArangeInclusive(start, stop, step) ==
    [i \in 1..((stop - start) \div step + 1) |-> start + (i - 1) * step]

\* np.arange(start, stop, step): ceil((stop - start) / step) values from
\* start, step apart (none when stop <= start)
Arange(start, stop, step) ==
    [i \in 1..Max(0, (stop - start + step - 1) \div step) |->
        start + (i - 1) * step]

\* the default grid had its step been 0.01
DefaultTimepointsFine == Arange(0, TimepointStop, 1)

\* the default of the timepoints argument, np.arange(0, 1, 0.02)
DefaultTimepoints == Arange(0, TimepointStop, TimepointStep)

\* transition_model.mean at one timepoint, for the three models tried:
\* a rising, a wandering and a falling trajectory
MeanAt(model, t) ==
    CASE model = 1 -> t \div 10
      [] model = 2 -> ((t \div 10) * 7) % 10
      [] OTHER     -> 9 - (t \div 10)

Mean(model, timepoints) ==
    [i \in 1..Len(timepoints) |-> MeanAt(model, timepoints[i])]

\* lines 105-108 with the loop started at 0: interp_mean[-1] is the last row
TrajectorySegmentsFromZero(interp_mean) ==
    [k \in 1..Len(interp_mean) |->
        [ from |-> interp_mean[IF k = 1 THEN Len(interp_mean) ELSE k - 1],
          to   |-> interp_mean[k] ]]

\* lines 105-108: for i in range(1, T) a segment from row i-1 to row i
TrajectorySegments(interp_mean) ==
    [k \in 1..(Len(interp_mean) - 1) |->
        [from |-> interp_mean[k], to |-> interp_mean[k + 1]]]

\* The whole call on the objects `st` with the arguments `a`.
plot_transition_model(st, a, fit_ok) ==
    LET r  == ResolveEmbedding(st.embeddings, a.embedding, a.data,
                               a.n_neighbors, fit_ok)
        e  == r.embs[r.id].obj
        timepoints == IF a.timepoints = None THEN DefaultTimepoints
                      ELSE a.timepoints[1]
        means == Mean(a.model, timepoints)
        interp_mean == TransformAll(e, means)
        ops == <<Call("transform", "means")>> \o
               (IF a.plot_errors THEN <<Call("transform", "samples")>>
                ELSE <<>>)
        none == [ outcome |-> "raised", ret |-> None, used |-> r.id,
                  projected |-> r.ok, timepoints |-> <<>>, means |-> <<>>,
                  markers |-> <<>>, segments |-> <<>>, kde |-> FALSE ]
    IN
    IF ~r.ok
    THEN [embeddings |-> r.embs, defaults |-> st.defaults,
          graphs |-> st.graphs, last |-> [args |-> a, out |-> none]]
    ELSE [embeddings |-> [r.embs EXCEPT ![r.id].obj.log = @ \o ops],
          defaults |-> st.defaults, graphs |-> st.graphs,
          last |-> [args |-> a,
                    out |-> [ outcome |-> "returned", ret |-> Some(r.id),
                              used |-> r.id, projected |-> TRUE,
                              timepoints |-> timepoints, means |-> means,
                              markers |-> interp_mean,
                              segments |-> TrajectorySegments(interp_mean),
                              kde |-> a.plot_errors ]]]

----------------------------------------------------------------------------
(* plot_transition_clustermap *)

TickStart == 10

TickCount == 10

\* '%.1f' % x for x = v/100, in tenths: the double nearest v/100 is rounded
\* to one decimal, so of the values ending in 5 those whose double lies
\* above v/100 (or on it, next to an odd tenth) go up.
Format1f(v) ==
    LET lo == v \div 10
    IN CASE v % 10 < 5 -> lo
         [] v % 10 > 5 -> lo + 1
         [] OTHER -> IF v % 100 \in {5, 45, 55, 65, 75} THEN lo + 1 ELSE lo

\* the pseudotimes tried, one per row of data_array: rising or falling
\* over [0, 1)
Pseudotime(kind, n, i) ==
    IF kind = 1 THEN (i * 100) \div n ELSE 99 - ((i * 100) \div n)

\* line 146 with the ticks started at column 0
TickPositionsFromZero(n) ==
    IF n \div TickCount = 0 THEN [raised |-> TRUE, r |-> <<>>]
    ELSE [raised |-> FALSE, r |-> Arange(0, n, n \div TickCount)]

\* line 146: r = np.arange(10, n, n/10) for n = data_array.shape[0]; the
\* division is the integer division that lets r index pseudotimes, and a
\* step of 0 makes arange raise.
TickPositions(n) ==
    IF n \div TickCount = 0 THEN [raised |-> TRUE, r |-> <<>>]
    ELSE [raised |-> FALSE, r |-> Arange(TickStart, n, n \div TickCount)]

RECURSIVE GeneClustersOverwrite(_, _, _, _)
\* lines 153-155 with the list replaced instead of appended to
GeneClustersOverwrite(assignments, gene_names, i, acc) ==
    IF i > Len(assignments) THEN [raised |-> FALSE, clusters |-> acc]
    ELSE IF i > Len(gene_names) THEN [raised |-> TRUE, clusters |-> acc]
    ELSE LET c == STATE_COLORS(assignments[i])
         IN GeneClustersOverwrite(assignments, gene_names, i + 1,
               [k \in DOMAIN acc \cup {c} |->
                   IF k = c THEN <<gene_names[i]>> ELSE acc[k]])

RECURSIVE GeneClusters(_, _, _, _)
\* lines 153-155: from position i on, gene_names[i] is appended to the list
\* of the color of assignments[i]; gene_names[i] past the end of gene_names
\* raises IndexError.
GeneClusters(assignments, gene_names, i, acc) ==
    IF i > Len(assignments) THEN [raised |-> FALSE, clusters |-> acc]
    ELSE IF i > Len(gene_names) THEN [raised |-> TRUE, clusters |-> acc]
    ELSE LET c == STATE_COLORS(assignments[i])
         IN GeneClusters(assignments, gene_names, i + 1,
               [k \in DOMAIN acc \cup {c} |->
                   IF k = c
                   THEN (IF c \in DOMAIN acc THEN acc[c] ELSE <<>>)
                        \o <<gene_names[i]>>
                   ELSE acc[k]])

\* The whole call.  a.assignments is what fcluster returns for the genes;
\* labels_ok tells whether the heatmap accepts the gene names as row labels
\* (it may refuse a list of another length than the rows).
plot_transition_clustermap(a, labels_ok) ==
    LET n == a.rows
        row_colors == [i \in 1..Len(a.assignments) |->
                          STATE_COLORS(a.assignments[i])]
        t  == TickPositions(n)
        gc == GeneClusters(a.assignments, a.gene_names, 1, <<>>)
        none == [ outcome |-> "raised", ret |-> None, metric |-> "",
                  row_colors |-> <<>>, xticks |-> <<>>, xticklabels |-> <<>> ]
        drawn == [none EXCEPT
                    !.metric = IF a.gradient THEN "seuclidean"
                               ELSE "correlation",
                    !.row_colors = row_colors]
        ticked == [drawn EXCEPT
                    !.xticks = t.r,
                    !.xticklabels = [k \in 1..Len(t.r) |->
                        Format1f(Pseudotime(a.pseudotimes, n, t.r[k]))]]
    IN [args |-> a,
        out  |-> IF ~labels_ok THEN none
                 ELSE IF t.raised THEN drawn
                 ELSE IF gc.raised THEN ticked
                 ELSE [ticked EXCEPT !.outcome = "returned",
                                     !.ret = Some(gc.clusters)]]

----------------------------------------------------------------------------
(* The state after import, and the calls *)

Init ==
    /\ embeddings = <<>>
    /\ defaults = [state_edges |-> <<>>, edge_weights |-> <<>>]
    /\ graphs = [g \in GraphIds |-> [ state_edges  |-> GraphStateEdges(g),
                                      edge_weights |-> GraphEdgeWeights(g) ]]
    /\ last = [args |-> [fn |-> "import"]]

State == [embeddings |-> embeddings, defaults |-> defaults, graphs |-> graphs]

Becomes(r) ==
    /\ embeddings' = r.embeddings
    /\ defaults' = r.defaults
    /\ graphs' = r.graphs
    /\ last' = r.last

FirstCall == last.args.fn \in {"import", "caller_embedding"}

NeighborArgs == {None} \cup {Some(k) : k \in 1..MaxNeighbors}

\* An embedding is None or one of the objects alive.
EmbeddingArgs == {None} \cup {Some(id) : id \in 1..Len(embeddings)}

\* A caller makes a projector for Data(n) and may fit it before plotting.
CallerMakesEmbedding ==
    \E n \in 1..MaxObs, fit \in BOOLEAN :
        /\ Len(embeddings) < MaxEmb
        /\ LET e == choose_2d_embedding(n, None)
               f == IF fit THEN [e EXCEPT !.fitted = TRUE, !.fit_data = Data(n)]
                    ELSE e
           IN embeddings' = Append(embeddings, [obj |-> f, origin |-> "caller"])
        /\ last' = [args |-> [fn |-> "caller_embedding"]]
        /\ UNCHANGED <<defaults, graphs>>

EdgePairs(n) == {p \in (0..(n - 1)) \X (0..(n - 1)) : p[1] < p[2]}

\* The caller's edge_weights dicts for a graph of n states: empty, one
\* item, or two items with different keys.
CallerEdgeWeights(n) ==
    {<<>>} \cup {<<Edge(p[1], p[2], 20)>> : p \in EdgePairs(n)}
           \cup {<<Edge(0, 1, 20), Edge(p[1], p[2], 5)>> :
                    p \in EdgePairs(n) \ {<<0, 1>>}}

\* The inputs tried: all of them in the runs of one call (wide), a few in
\* the runs of several calls.
ObsArgs(wide) == IF wide THEN 1..MaxObs ELSE {MaxObs}

GraphArgs(wide) == IF wide THEN GraphIds ELSE {2}

StateEdgeArgs(wide) ==
    IF wide THEN {None, Some(<<>>), Some(<<<<0, 1>>>>)} ELSE {None}

EdgeWeightArgs(wide, g) ==
    IF wide THEN {None} \cup {Some(w) : w \in CallerEdgeWeights(NumStates(g))}
    ELSE {None, Some(<<Edge(0, 1, 20)>>)}

MembershipArgs(wide, g, n) ==
    IF wide THEN {None} \cup {Some(m) : m \in [1..n -> 0..(NumStates(g) - 1)]}
    ELSE {None}

PlotMetastableGraph(wide) ==
    \E n \in ObsArgs(wide), g \in GraphArgs(wide), fit_ok \in BOOLEAN :
    \E n_neighbors \in (IF wide THEN {None, Some(1)} ELSE {None}) :
    \E plot_edges \in BOOLEAN, state_edges \in StateEdgeArgs(wide) :
    \E edge_weights \in EdgeWeightArgs(wide, g) :
    \E embedding \in EmbeddingArgs, memberships \in MembershipArgs(wide, g, n) :
        /\ embedding = None => Len(embeddings) < MaxEmb
        /\ Becomes(plot_metastable_graph(State,
              [ fn |-> "plot_metastable_graph", data |-> Data(n), graph |-> g,
                n_neighbors |-> n_neighbors, plot_edges |-> plot_edges,
                state_edges |-> state_edges, edge_weights |-> edge_weights,
                embedding |-> embedding, memberships |-> memberships ],
              fit_ok))

TimepointValues == {0, 30, 50, 90}

\* explicit timepoint grids: 1..MaxT timepoints in any order
TimepointArgs(wide) ==
    IF wide
    THEN {None} \cup {Some(t) : t \in UNION {[1..k -> TimepointValues] : k \in 1..MaxT}}
    ELSE {None, Some(<<0, 50>>)}

PlotTransitionModel(wide) ==
    \E n \in ObsArgs(wide), fit_ok \in BOOLEAN :
    \E model \in (IF wide THEN 1..3 ELSE {2}) :
    \E n_neighbors \in (IF wide THEN {None, Some(1)} ELSE {None}) :
    \E plot_errors \in BOOLEAN, timepoints \in TimepointArgs(wide) :
    \E embedding \in EmbeddingArgs :
        /\ embedding = None => Len(embeddings) < MaxEmb
        /\ Becomes(plot_transition_model(State,
              [ fn |-> "plot_transition_model", data |-> Data(n),
                model |-> model, n_neighbors |-> n_neighbors,
                embedding |-> embedding, plot_errors |-> plot_errors,
                timepoints |-> timepoints ],
              fit_ok))

\* what fcluster may return for G genes and at most n_clusters clusters:
\* the cluster ids in use are 1..k for some k <= n_clusters
Assignments(G, n_clusters) ==
    {f \in [1..G -> 1..n_clusters] : \E k \in 1..n_clusters : Range(f) = 1..k}

\* gene name lists of length L: all names different, or the second a
\* repetition of the first
GeneNames(L) ==
    {[i \in 1..L |-> i], [i \in 1..L |-> IF i = 2 THEN 1 ELSE i]}

PlotTransitionClustermap ==
    \E n \in 2..MaxCols, G \in 2..MaxGenes, gradient \in BOOLEAN :
    \E n_clusters \in 1..(PaletteSize - 1), pseudotimes \in 1..2 :
    \E assignments \in Assignments(G, n_clusters) :
    \E L \in (G - 1)..(G + 1), labels_ok \in BOOLEAN :
    \E gene_names \in GeneNames(L) :
        /\ L = G => labels_ok
        /\ last' = plot_transition_clustermap(
              [ fn |-> "plot_transition_clustermap", rows |-> n,
                gene_names |-> gene_names, pseudotimes |-> pseudotimes,
                n_clusters |-> n_clusters, gradient |-> gradient,
                assignments |-> assignments ],
              labels_ok)
        /\ UNCHANGED <<embeddings, defaults, graphs>>

\* the plotter calls made so far: each projects the data exactly once
NumCalls ==
    LET n(i) == Cardinality({k \in 1..Len(embeddings[i].obj.log) :
                               embeddings[i].obj.log[k].arg = "data"})
        RECURSIVE sum(_)
        sum(i) == IF i = 0 THEN 0 ELSE n(i) + sum(i - 1)
    IN sum(Len(embeddings))

\* A caller builds a projector for a matrix of `rows` rows.
ChooseEmbedding ==
    \E rows \in 0..MaxRows :
    \E n_neighbors \in NeighborArgs :
        /\ last' = [ args |-> [ fn |-> "choose_2d_embedding", rows |-> rows,
                                n_neighbors |-> n_neighbors ],
                     out  |-> [ ret |-> choose_2d_embedding(rows, n_neighbors) ] ]
        /\ UNCHANGED <<embeddings, defaults, graphs>>

ChooseNext == ChooseEmbedding

SpecChoose == Init /\ [][ChooseNext]_vars

\* One call of the graph plotter, on at most one embedding of the caller.
GraphNext ==
    \/ embeddings = <<>> /\ CallerMakesEmbedding
    \/ FirstCall /\ PlotMetastableGraph(TRUE)

SpecGraph == Init /\ [][GraphNext]_vars

\* One call of the transition plotter.
TransitionNext ==
    \/ embeddings = <<>> /\ CallerMakesEmbedding
    \/ FirstCall /\ PlotTransitionModel(TRUE)

SpecTransition == Init /\ [][TransitionNext]_vars

\* Sequences of calls of the two plotters that reuse embeddings.
EmbeddingNext ==
    \/ embeddings = <<>> /\ CallerMakesEmbedding
    \/ NumCalls < MaxCalls /\ PlotMetastableGraph(FALSE)
    \/ NumCalls < MaxCalls /\ PlotTransitionModel(FALSE)

SpecEmbedding == Init /\ [][EmbeddingNext]_vars

\* One call of the clustermap.
ClusterNext == FirstCall /\ PlotTransitionClustermap

SpecCluster == Init /\ [][ClusterNext]_vars

----------------------------------------------------------------------------
(* Properties *)

Fn == last.args.fn

Returned == last.out.outcome = "returned"

Count(seq, x) == Cardinality({i \in 1..Len(seq) : seq[i] = x})

\* C1: the plotters invoke nothing but transform on an embedding the caller
\* made, and on an embedding a plotter built the first invocation is
\* fit_transform on the data matrix and every later one is transform.
C1_SuppliedEmbeddingOnlyTransformed ==
    \A i \in 1..Len(embeddings) :
        LET log == embeddings[i].obj.log
        IN /\ embeddings[i].origin = "caller" =>
                \A k \in 1..Len(log) : log[k].op = "transform"
           /\ embeddings[i].origin = "plotter" =>
                /\ Len(log) >= 1
                /\ log[1] = Call("fit_transform", "data")
                /\ \A k \in 2..Len(log) : log[k].op = "transform"

\* C1 witness: both plotters have used one embedding of the caller, and a
\* plotter has built an embedding of its own.
C1_Witness ==
    /\ \E i \in 1..Len(embeddings) :
          /\ embeddings[i].origin = "caller"
          /\ {"centroid", "means"} \subseteq
                {embeddings[i].obj.log[k].arg :
                    k \in 1..Len(embeddings[i].obj.log)}
    /\ \E i \in 1..Len(embeddings) : embeddings[i].origin = "plotter"

\* C2 (as amended): with n_neighbors omitted the projector's n_neighbors is
\* 0.8 * rows truncated to an integer: the largest k with k <= 0.8 * rows.
C2_DefaultNeighborsTruncated ==
    (Fn = "choose_2d_embedding" /\ last.args.n_neighbors = None) =>
        LET k == last.out.ret.n_neighbors
        IN 5 * k <= 4 * last.args.rows /\ 4 * last.args.rows < 5 * (k + 1)

\* C2 witness: 6 rows give 4 neighbors (0.8 * 6 = 4.8)
C2_Witness ==
    /\ Fn = "choose_2d_embedding"
    /\ last.args.n_neighbors = None
    /\ last.args.rows = 6
    /\ last.out.ret.n_neighbors = 4

\* C2 as claimed: with n_neighbors omitted the projector's n_neighbors is
\* round(0.8 * rows).
C2_DefaultNeighborsRounded ==
    (Fn = "choose_2d_embedding" /\ last.args.n_neighbors = None) =>
        last.out.ret.n_neighbors = RoundedNeighbors(last.args.rows)

\* C3: the method is 'modified' below 50 rows and 'standard' from 50 rows
\* on, whatever n_neighbors is, and the projector returned is not fitted.
C3_MethodByRowCount ==
    Fn = "choose_2d_embedding" =>
        /\ last.args.rows < 50 => last.out.ret.method = "modified"
        /\ last.args.rows >= 50 => last.out.ret.method = "standard"
        /\ ~last.out.ret.fitted
        /\ last.out.ret.log = <<>>

\* C3 witness: the boundary, 50 rows, with an explicit n_neighbors
C3_Witness ==
    /\ Fn = "choose_2d_embedding"
    /\ last.args.rows = 50
    /\ last.args.n_neighbors # None
    /\ last.out.ret.method = "standard"

\* C4 as claimed: every call of plot_metastable_graph that completes, with
\* or without the overlay, returns the colors of the observations and the
\* embedding that projected the data (the caller's own when one was given).
C4_ReturnsColorsAndEmbedding ==
    (Fn = "plot_metastable_graph" /\ Returned) =>
        /\ last.out.ret =
              Some([ colors |-> [i \in 1..Len(last.out.memberships) |->
                                   STATE_COLORS(last.out.memberships[i])],
                     embedding |-> last.out.used ])
        /\ last.args.embedding # None =>
              last.out.used = last.args.embedding[1]

\* C5 (as amended): with timepoints omitted the grid handed to
\* transition_model.mean has exactly 50 points, from 0, 0.02 apart, all
\* below 1.
C5_DefaultGridFiftyPoints ==
    (Fn = "plot_transition_model" /\ Returned
        /\ last.args.timepoints = None) =>
        LET tp == last.out.timepoints
        IN /\ Len(tp) = 50
           /\ tp[1] = 0
           /\ \A i \in 1..(Len(tp) - 1) : tp[i + 1] - tp[i] = 2
           /\ \A i \in 1..Len(tp) : tp[i] < 100

\* C5 witness: a call without timepoints has drawn its trajectory
C5_Witness ==
    /\ Fn = "plot_transition_model"
    /\ Returned
    /\ last.args.timepoints = None
    /\ Len(last.out.segments) = 49

\* C5 as claimed: with timepoints omitted the grid has exactly 100 points,
\* from 0, evenly spaced, all below 1.
C5_DefaultGridHundredPoints ==
    (Fn = "plot_transition_model" /\ Returned
        /\ last.args.timepoints = None) =>
        LET tp == last.out.timepoints
        IN /\ Len(tp) = 100
           /\ tp[1] = 0
           /\ \A i \in 1..(Len(tp) - 1) : tp[i + 1] - tp[i] = tp[2] - tp[1]
           /\ \A i \in 1..Len(tp) : tp[i] < 100

\* the colors of the cluster ids that occur in the assignments
ClusterColors(assignments) ==
    {STATE_COLORS(assignments[i]) : i \in 1..Len(assignments)}

\* the gene names at the positions of the assignments whose color is c
NamesOfColor(a, c) ==
    {i \in 1..Len(a.assignments) :
        i <= Len(a.gene_names) /\ STATE_COLORS(a.assignments[i]) = c}

\* C6 (as amended): a mapping is returned only when gene_names is at least
\* as long as the assignments; its keys are the colors of the cluster ids
\* that occur, and the list of a color holds the gene names at the
\* positions of the assignments with that color, each as often as it
\* stands there, so a name past the assignments is in a list only if it
\* also stands at an earlier position.
C6_ClustersOfAssignedPositions ==
    (Fn = "plot_transition_clustermap" /\ Returned) =>
        LET a  == last.args
            gc == last.out.ret[1]
        IN /\ Len(a.gene_names) >= Len(a.assignments)
           /\ DOMAIN gc = ClusterColors(a.assignments)
           /\ \A c \in DOMAIN gc : \A name \in Range(a.gene_names) :
                 Count(gc[c], name) =
                    Cardinality({i \in NamesOfColor(a, c) :
                                    a.gene_names[i] = name})
           /\ \A c \in DOMAIN gc : Range(gc[c]) \subseteq Range(a.gene_names)

\* C6 witness: a mapping came back for a gene list longer than the
\* assignments, with two cluster ids of one color
C6_Witness ==
    /\ Fn = "plot_transition_clustermap"
    /\ Returned
    /\ Len(last.args.gene_names) > Len(last.args.assignments)
    /\ \E i, j \in 1..Len(last.args.assignments) :
          /\ last.args.assignments[i] # last.args.assignments[j]
          /\ STATE_COLORS(last.args.assignments[i]) =
                STATE_COLORS(last.args.assignments[j])

\* C6 as claimed, for gene names that are all different: the keys are the
\* colors of the cluster ids that occur and every gene name of the input is
\* in exactly one value list, also when gene_names and the assignments
\* differ in length.
C6_EveryGeneInOneList ==
    (Fn = "plot_transition_clustermap" /\ Returned
        /\ Cardinality(Range(last.args.gene_names)) = Len(last.args.gene_names)) =>
        LET a  == last.args
            gc == last.out.ret[1]
        IN /\ DOMAIN gc = ClusterColors(a.assignments)
           /\ \A name \in Range(a.gene_names) :
                 Cardinality({c \in DOMAIN gc : name \in Range(gc[c])}) = 1
           /\ UNION {Range(gc[c]) : c \in DOMAIN gc} = Range(a.gene_names)

\* C7: for T mean positions the trajectory is T-1 segments, the k-th from
\* the projected mean of timepoint k to that of timepoint k+1 (counting
\* from 1), in that order; none when T = 1.
C7_SegmentsInTimepointOrder ==
    (Fn = "plot_transition_model" /\ Returned) =>
        LET e  == embeddings[last.out.used].obj
            tp == last.out.timepoints
            sg == last.out.segments
        IN /\ Len(sg) = Len(tp) - 1
           /\ \A k \in 1..Len(sg) :
                 /\ sg[k].from = Transform(e, MeanAt(last.args.model, tp[k]))
                 /\ sg[k].to = Transform(e, MeanAt(last.args.model, tp[k + 1]))

\* C7 witness: three timepoints whose means go up and then down, joined by
\* two segments
C7_Witness ==
    /\ Fn = "plot_transition_model"
    /\ Returned
    /\ Len(last.out.timepoints) = 3
    /\ Len(last.out.segments) = 2
    /\ last.out.means[1] < last.out.means[2]
    /\ last.out.means[3] < last.out.means[2]

\* C8 (as amended): when the call gets to label the x-axis (n >= 10), the
\* ticks are the columns 10, 10+s, 10+2s, ... below n for s = n div 10: at
\* most 10 of them, exactly 10 when (n div 10) + (n mod 10) > 10 (so for
\* every n > 100), each a column index in [0, n), and the label of a tick
\* is the pseudotime at that column, printed with one decimal.
C8_TicksFromColumnTen ==
    (Fn = "plot_transition_clustermap"
        /\ (Returned \/ Len(last.out.xticks) > 0)) =>
        LET n == last.args.rows
            r == last.out.xticks
            s == n \div 10
        IN /\ n >= 10
           /\ Len(r) <= 10
           /\ Len(r) = 10 <=> s + (n % 10) > 10
           /\ n > 100 => Len(r) = 10
           /\ Len(r) > 0 => r[1] = 10
           /\ \A k \in 1..(Len(r) - 1) : r[k + 1] - r[k] = s
           /\ Len(r) > 0 => r[Len(r)] + s >= n
           /\ \A k \in 1..Len(r) : 0 <= r[k] /\ r[k] < n
           /\ Len(last.out.xticklabels) = Len(r)
           /\ \A k \in 1..Len(r) :
                 last.out.xticklabels[k] =
                    Format1f(Pseudotime(last.args.pseudotimes, n, r[k]))

\* C8 witness: 105 columns are labelled at 10 positions, and the pseudotime
\* 0.95 at one of them is printed as 0.9
C8_Witness ==
    /\ Fn = "plot_transition_clustermap"
    /\ Returned
    /\ last.args.rows = 100 + 5
    /\ Len(last.out.xticks) = 10
    /\ \E k \in 1..10 :
          /\ Pseudotime(last.args.pseudotimes, last.args.rows,
                        last.out.xticks[k]) = 95
          /\ last.out.xticklabels[k] = 9

\* C8 as claimed: the x-axis is labelled at exactly 10 evenly spaced
\* columns, each in [0, n), with the pseudotime at that column.
C8_TenEvenlySpacedTicks ==
    (Fn = "plot_transition_clustermap" /\ Returned) =>
        LET n == last.args.rows
            r == last.out.xticks
        IN /\ Len(r) = 10
           /\ \A k \in 1..(Len(r) - 1) : r[k + 1] - r[k] = r[2] - r[1]
           /\ \A k \in 1..Len(r) : 0 <= r[k] /\ r[k] < n

\* C9 as claimed: with the overlay, the nodes drawn are one per state
\* present in memberships, each at the projected centroid of its state, and
\* every edge of the edge weights between two present states is drawn from
\* the node of its first state to the node of its second.
C9_EdgesJoinTheirStates ==
    (Fn = "plot_metastable_graph" /\ last.args.plot_edges
        /\ last.out.projected) =>
        LET present == Range(last.out.memberships)
            e       == embeddings[last.out.used].obj
            pos(s)  == Transform(e, Centroid(last.args.graph, s))
            nodes   == last.out.nodes
        IN /\ {nodes[k].state : k \in 1..Len(nodes)} = present
           /\ Len(nodes) = Cardinality(present)
           /\ \A k \in 1..Len(nodes) : nodes[k].pos = pos(nodes[k].state)
           /\ \A it \in Range(last.out.edges) :
                 (it.states[1] \in present /\ it.states[2] \in present) =>
                    \E sg \in Range(last.out.segments) :
                        /\ sg.states = it.states
                        /\ sg.from = pos(it.states[1])
                        /\ sg.to = pos(it.states[2])

\* the keys of an edge_weights dict
Keys(items) == {items[i].states : i \in 1..Len(items)}

\* the edges a call is to draw: the caller's when it gave any, else the
\* graph's own as the graph was built
EdgesToDraw ==
    IF last.args.edge_weights # None /\ last.args.edge_weights[1] # <<>>
    THEN Keys(last.args.edge_weights[1])
    ELSE Keys(GraphEdgeWeights(last.args.graph))

\* the call has left the default arguments, the graphs and the caller's
\* edge arguments as they were
EdgeObjectsUntouched ==
    /\ defaults = [state_edges |-> <<>>, edge_weights |-> <<>>]
    /\ \A g \in GraphIds :
          graphs[g] = [ state_edges  |-> GraphStateEdges(g),
                        edge_weights |-> GraphEdgeWeights(g) ]
    /\ last.out.caller_state_edges = last.args.state_edges
    /\ last.out.caller_edge_weights = last.args.edge_weights

\* C10 as claimed: with the overlay, the edges drawn are the keys of the
\* caller's edge_weights when it is not empty and of the graph's own
\* edge_weights otherwise, and no edge object is written.
C10_DrawsSelectedEdges ==
    (Fn = "plot_metastable_graph" /\ last.args.plot_edges
        /\ last.out.projected) =>
        /\ Keys(last.out.segments) = EdgesToDraw
        /\ EdgeObjectsUntouched

\* The part of C10 that the code keeps: a call with the overlay that
\* completes has drawn exactly the selected edges and written no edge
\* object.
EdgesDrawnWhenCompleted ==
    (Fn = "plot_metastable_graph" /\ last.args.plot_edges /\ Returned) =>
        /\ Keys(last.out.segments) = EdgesToDraw
        /\ EdgeObjectsUntouched

====
